---------------------------- MODULE Spec2Model ----------------------------
(***************************************************************************)
(* Model of the cAdvisor container-handler core: the raw factory's         *)
(* acceptance policy, the Docker container handler (construction, the      *)
(* storage-driver usage corrector, GetStats, Start/Cleanup) and the        *)
(* netlink cpu-load reader.                                                *)
(*                                                                         *)
(* Go strings that the code inspects character by character (container    *)
(* names, prefixes, cgroup paths) are sequences of one-character strings;  *)
(* filesystem paths built with path.Join are sequences of path components; *)
(* uint64 byte counters are four 16-bit limbs, most significant first, so  *)
(* that addition wraps at 2^64 exactly as the Go fields do.                *)
(***************************************************************************)
EXTENDS Integers, Sequences, FiniteSets, TLC

VARIABLES
    dockerOnly,          \* raw: the --docker_only flag
    rawPrefixWhiteList,  \* raw: rawFactory.rawPrefixWhiteList
    rawRet,              \* raw: what the last call on the factory returned
    handler,             \* docker: the dockerContainerHandler, or NoHandler
    sampler,             \* docker: the common.FsHandler behind dockerFsHandler, or NoSampler
    ret,                 \* docker: what the last call on the handler returned
    reader,              \* netlink: the NetlinkReader, or NoReader
    conn,                \* netlink: the kernel connection
    pc,                  \* netlink: position of each caller inside GetCpuLoad
    cfd,                 \* netlink: the descriptor each caller holds open
    nlRet,               \* netlink: what the last call of each caller returned
    factories,           \* registry: the registered factories per watch source
    regRet               \* registry: what the last Register call returned

rawVars == <<dockerOnly, rawPrefixWhiteList, rawRet>>
dockerVars == <<handler, sampler, ret>>
netlinkVars == <<reader, conn, pc, cfd, nlRet>>
registryVars == <<factories, regRet>>
vars == <<dockerOnly, rawPrefixWhiteList, rawRet, handler, sampler, ret,
          reader, conn, pc, cfd, nlRet, factories, regRet>>

---------------------------------------------------------------------------
(* Bounds of the model. *)

\* longest prefix allow-list handed to the raw factory
MaxList == 2
\* number of concurrent callers of one NetlinkReader
MaxCallers == 2
\* number of descriptors opened by, and of Stop calls on, one NetlinkReader
MaxRequests == 2
\* number of Register calls made at process start
MaxRegisterCalls == 3

---------------------------------------------------------------------------
(* Go strings as sequences of characters. *)

\* strings.HasPrefix
HasPrefix(s, prefix) ==
    /\ Len(prefix) <= Len(s)
    /\ SubSeq(s, 1, Len(prefix)) = prefix

EmptyString == <<>>
RootName == <<"/">>
Names == { RootName,
           <<"/", "a">>,
           <<"/", "a", "/", "b">>,
           <<"/", "b">>,
           <<"/", "o", "t", "h", "e", "r">> }
Prefixes == { EmptyString, <<"/", "a">>, <<"/", "o">> }

RECURSIVE SeqsUpTo(_, _)
SeqsUpTo(S, n) ==
    IF n = 0 THEN { <<>> }
    ELSE LET shorter == SeqsUpTo(S, n - 1)
         IN shorter \cup { Append(q, x) : q \in shorter, x \in S }

WhiteLists == SeqsUpTo(Prefixes, MaxList)

---------------------------------------------------------------------------
(* The raw factory. *)

NoRet == [op |-> "none"]

\* the loop of CanHandleAndAccept: true iff some entry is a prefix of name
InWhiteList(name, whiteList) ==
    \E i \in 1..Len(whiteList) : HasPrefix(name, whiteList[i])

\* rawFactory.CanHandleAndAccept: the three results, or a run-time panic
\* (self.rawPrefixWhiteList[0] on an empty slice is an index out of range;
\* Go evaluates it only when *dockerOnly is true)
CanHandleAndAccept(name, flag, whiteList) ==
    IF name = RootName
    THEN [canHandle |-> TRUE, shouldAccept |-> TRUE, err |-> FALSE, panic |-> FALSE]
    ELSE IF flag /\ Len(whiteList) = 0
    THEN [canHandle |-> FALSE, shouldAccept |-> FALSE, err |-> FALSE, panic |-> TRUE]
    ELSE IF flag /\ whiteList[1] = EmptyString
    THEN [canHandle |-> TRUE, shouldAccept |-> FALSE, err |-> FALSE, panic |-> FALSE]
    ELSE IF InWhiteList(name, whiteList)
    THEN [canHandle |-> TRUE, shouldAccept |-> TRUE, err |-> FALSE, panic |-> FALSE]
    ELSE [canHandle |-> TRUE, shouldAccept |-> FALSE, err |-> FALSE, panic |-> FALSE]

RawInit ==
    /\ dockerOnly \in BOOLEAN
    /\ rawPrefixWhiteList \in WhiteLists
    /\ rawRet = NoRet

RawIdle ==
    /\ dockerOnly = FALSE
    /\ rawPrefixWhiteList = <<EmptyString>>
    /\ rawRet = NoRet

\* one call of rawFactory.CanHandleAndAccept(name)
RawCanHandleAndAccept ==
    \E name \in Names :
        /\ rawRet' = [op |-> "CanHandleAndAccept", name |-> name,
                      res |-> CanHandleAndAccept(name, dockerOnly, rawPrefixWhiteList)]
        /\ UNCHANGED <<dockerOnly, rawPrefixWhiteList>>
        /\ UNCHANGED <<dockerVars, netlinkVars, registryVars>>

---------------------------------------------------------------------------
(* uint64 counters: four 16-bit limbs, most significant first. *)

Limb == 2^16

\* the uint64 with value n, for 0 <= n < 2^31
U64(n) == <<0, 0, n \div Limb, n % Limb>>

Max64 == <<Limb - 1, Limb - 1, Limb - 1, Limb - 1>>

\* a sum that loses its second operand
Add64_FirstOperand(a, b) ==
    LET s4 == a[4]
        s3 == a[3] + (s4 \div Limb)
        s2 == a[2] + (s3 \div Limb)
        s1 == a[1] + (s2 \div Limb)
    IN <<s1 % Limb, s2 % Limb, s3 % Limb, s4 % Limb>>

\* Go's + on uint64: the sum modulo 2^64
Add64(a, b) ==
    LET s4 == a[4] + b[4]
        s3 == a[3] + b[3] + (s4 \div Limb)
        s2 == a[2] + b[2] + (s3 \div Limb)
        s1 == a[1] + b[1] + (s2 \div Limb)
    IN <<s1 % Limb, s2 % Limb, s3 % Limb, s4 % Limb>>

\* Go's >= on uint64
Geq64(a, b) ==
    \/ a = b
    \/ \E i \in 1..4 : a[i] > b[i] /\ \A j \in 1..(i - 1) : a[j] = b[j]

\* whether Go's + on these uint64 wraps around: the carry out of the top limb
Wraps64(a, b) ==
    LET s4 == a[4] + b[4]
        s3 == a[3] + b[3] + (s4 \div Limb)
        s2 == a[2] + b[2] + (s3 \div Limb)
        s1 == a[1] + b[1] + (s2 \div Limb)
    IN s1 >= Limb

\* common.FsUsage
FsUsage(base, total, inodes) ==
    [BaseUsageBytes |-> base, TotalUsageBytes |-> total, InodeUsage |-> inodes]

ZeroUsage == FsUsage(U64(0), U64(0), U64(0))

\* snapshots a directory walk of the sampler can produce
Samples == { FsUsage(U64(1000), U64(2000), U64(5)),
             FsUsage(U64(0), Max64, U64(1)) }

\* what ThinPoolWatcher.GetUsage / ZfsWatcher.GetUsage can return
WatcherOutcomes == { [err |-> TRUE, usage |-> U64(0)],
                     [err |-> FALSE, usage |-> U64(500000)],
                     [err |-> FALSE, usage |-> U64(1)] }

---------------------------------------------------------------------------
(* Filesystem paths: sequences of components. *)

RECURSIVE Join(_)
\* path.Join: the elements' components in order; empty elements vanish
Join(elems) ==
    IF elems = <<>> THEN <<>> ELSE Head(elems) \o Join(Tail(elems))

\* a Go string used as one path element
Elem(s) == IF s = "" THEN <<>> ELSE <<s>>

---------------------------------------------------------------------------
(* The Docker container handler: construction. *)

aufsRWLayer == "diff"
overlayRWLayer == "upper"
overlay2RWLayer == "diff"
randomizedRWLayerMinorVersion == 10
rwLayerIDFile == "mount-id"

aufsStorageDriver == "aufs"
overlayStorageDriver == "overlay"
overlay2StorageDriver == "overlay2"
devicemapperStorageDriver == "devicemapper"
zfsStorageDriver == "zfs"
StorageDrivers == { aufsStorageDriver, overlayStorageDriver, overlay2StorageDriver,
                    devicemapperStorageDriver, zfsStorageDriver, "btrfs" }

DiskUsageMetrics == "disk"
NetworkUsageMetrics == "network"
MetricSets == SUBSET { DiskUsageMetrics, NetworkUsageMetrics }

NoHandler == [kind |-> "nil"]
NoSampler == [kind |-> "nil"]
NoFsHandler == [kind |-> "nil"]

\* dockercontainer.NetworkMode, split at its first ':'
NetworkModes == { <<"bridge">>, <<"container", "peer">> }

\* NetworkMode.IsContainer, and strings.HasPrefix(networkMode, "container:")
IsContainer(networkMode) ==
    Len(networkMode) > 1 /\ networkMode[1] = "container"

\* ContainerNameToDockerId: the last component of the cgroup name
ContainerNameToDockerId(name) == name[Len(name)]

\* getRwLayerID: the mount identifier, whether it failed, and the files it read
getRwLayerID(containerID, storageDir, sd, dockerVersion, readFile) ==
    IF dockerVersion[1] <= 1 /\ dockerVersion[2] < randomizedRWLayerMinorVersion
    THEN [id |-> containerID, err |-> FALSE, read |-> <<>>]
    ELSE LET file == Join(<<storageDir, <<"image">>, Elem(sd), <<"layerdb">>,
                            <<"mounts">>, Elem(containerID), <<rwLayerIDFile>>>>)
         IN IF readFile.err
            THEN [id |-> "", err |-> TRUE, read |-> <<file>>]
            ELSE [id |-> readFile.content, err |-> FALSE, read |-> <<file>>]

\* the switch with overlay's subdirectory taken from overlay2
RootfsStorageDir_OverlayDiff(storageDir, sd, rwLayerID) ==
    IF sd = aufsStorageDriver
    THEN Join(<<storageDir, Elem(aufsStorageDriver), Elem(aufsRWLayer), Elem(rwLayerID)>>)
    ELSE IF sd = overlayStorageDriver
    THEN Join(<<storageDir, Elem(sd), Elem(rwLayerID), Elem(overlay2RWLayer)>>)
    ELSE IF sd = overlay2StorageDriver
    THEN Join(<<storageDir, Elem(sd), Elem(rwLayerID), Elem(overlay2RWLayer)>>)
    ELSE <<>>

\* the switch on the storage driver that sets rootfsStorageDir
RootfsStorageDir(storageDir, sd, rwLayerID) ==
    IF sd = aufsStorageDriver
    THEN Join(<<storageDir, Elem(aufsStorageDriver), Elem(aufsRWLayer), Elem(rwLayerID)>>)
    ELSE IF sd = overlayStorageDriver
    THEN Join(<<storageDir, Elem(sd), Elem(rwLayerID), Elem(overlayRWLayer)>>)
    ELSE IF sd = overlay2StorageDriver
    THEN Join(<<storageDir, Elem(sd), Elem(rwLayerID), Elem(overlay2RWLayer)>>)
    ELSE <<>>

\* common.NewFsHandler: a sampler that is not running and has no sample yet
NewFsHandler == [kind |-> "sampler", running |-> FALSE, usage |-> ZeroUsage]

\* an error return that comes after the sampler was already created
ErrReturn_SamplerFirst(in, calls) ==
    [handler |-> NoHandler, fsCreated |-> DiskUsageMetrics \in in.includedMetrics,
     err |-> TRUE, panic |-> FALSE, calls |-> calls, rwLayerID |-> ""]

\* every `return nil, err` of newDockerContainerHandler
ErrReturn(in, calls) ==
    [handler |-> NoHandler, fsCreated |-> FALSE, err |-> TRUE, panic |-> FALSE,
     calls |-> calls, rwLayerID |-> ""]

\* the handler literal and the assignments that follow it
BuildHandler(in, id, rootfsStorageDir, zfsParent, zfsFilesystem, ctnr, ipAddress) ==
    [kind |-> "handler",
     id |-> id,
     storageDriver |-> in.storageDriver,
     poolName |-> in.thinPoolName,
     rootfsStorageDir |-> rootfsStorageDir,
     includedMetrics |-> in.includedMetrics,
     zfsParent |-> zfsParent,
     networkMode |-> ctnr.NetworkMode,
     ipAddress |-> ipAddress,
     fsHandler |-> IF DiskUsageMetrics \in in.includedMetrics
                   THEN [kind |-> "dockerFsHandler",
                         thinPoolWatcher |-> in.thinPoolWatcher,
                         zfsWatcher |-> in.zfsWatcher,
                         deviceID |-> ctnr.DeviceId,
                         zfsFilesystem |-> zfsFilesystem]
                   ELSE NoFsHandler]

\* newDockerContainerHandler
newDockerContainerHandler(in) ==
    LET storageDir == IF in.inHostNamespace THEN in.storageDir
                      ELSE Join(<<<<"rootfs">>, in.storageDir>>)
        id == ContainerNameToDockerId(in.name)
        rw == getRwLayerID(id, storageDir, in.storageDriver, in.dockerVersion,
                           in.mountIdFile)
        calls1 == [ i \in 1..Len(rw.read) |->
                      [call |-> "ReadFile", arg |-> rw.read[i], ok |-> ~rw.err] ]
    IN
    IF rw.err THEN ErrReturn(in, calls1)
    ELSE
    LET rootfsStorageDir == RootfsStorageDir(storageDir, in.storageDriver, rw.id)
        isZfs == in.storageDriver = zfsStorageDriver
        calls2 == IF isZfs
                  THEN Append(calls1, [call |-> "Status", arg |-> <<>>, ok |-> ~in.status.err])
                  ELSE calls1
    IN
    IF isZfs /\ in.status.err THEN ErrReturn(in, calls2)
    ELSE
    LET zfsParent == IF isZfs THEN in.status.parentDataset ELSE <<>>
        zfsFilesystem == IF isZfs THEN Join(<<zfsParent, Elem(rw.id)>>) ELSE <<>>
        ctnr == in.inspect
        calls3 == Append(calls2, [call |-> "ContainerInspect", arg |-> <<id>>,
                                  ok |-> ~ctnr.err])
    IN
    IF ctnr.err THEN ErrReturn(in, calls3)
    ELSE
    LET calls3p == Append(calls3, [call |-> "time.Parse", arg |-> <<"Created">>,
                                   ok |-> ctnr.CreatedParses])
    IN
    IF ~ctnr.CreatedParses THEN ErrReturn(in, calls3p)
    ELSE IF ctnr.RestartCount > 0 /\ ctnr.LabelsNil
    THEN \* handler.labels["restartcount"] = ... on a nil map
         [handler |-> NoHandler, fsCreated |-> FALSE, err |-> FALSE, panic |-> TRUE,
          calls |-> calls3p, rwLayerID |-> rw.id]
    ELSE
    LET hop == ctnr.IPAddress = "" /\ IsContainer(ctnr.NetworkMode)
        calls4 == IF hop
                  THEN Append(calls3p, [call |-> "ContainerInspect",
                                       arg |-> <<ctnr.NetworkMode[2]>>,
                                       ok |-> ~in.hop.err])
                  ELSE calls3p
    IN
    IF hop /\ in.hop.err THEN ErrReturn(in, calls4)
    ELSE
    LET ipAddress == IF hop THEN in.hop.IPAddress ELSE ctnr.IPAddress
    IN [handler |-> BuildHandler(in, id, rootfsStorageDir, zfsParent, zfsFilesystem,
                                 ctnr, ipAddress),
        fsCreated |-> DiskUsageMetrics \in in.includedMetrics,
        err |-> FALSE, panic |-> FALSE, calls |-> calls4, rwLayerID |-> rw.id]

\* what client.ContainerInspect can answer for the container
Inspections ==
    { [err |-> TRUE, CreatedParses |-> FALSE, LabelsNil |-> FALSE, RestartCount |-> 0,
       NetworkMode |-> <<"bridge">>, IPAddress |-> "", DeviceId |-> "pool-dev-1"] }
    \cup [err : {FALSE}, CreatedParses : BOOLEAN, LabelsNil : BOOLEAN,
          RestartCount : {0, 2}, NetworkMode : NetworkModes,
          IPAddress : {"", "10.0.0.2"}, DeviceId : {"pool-dev-1"}]

\* the arguments of newDockerContainerHandler and the answers of its collaborators
ConstructionInputs ==
    [name : { <<"docker", "abc123">> },
     storageDriver : StorageDrivers,
     storageDir : { <<"var", "lib", "docker">> },
     inHostNamespace : BOOLEAN,
     dockerVersion : { <<1, 9, 1>>, <<1, 11, 0>>, <<0, 11, 0>>, <<17, 3, 0>> },
     includedMetrics : MetricSets,
     thinPoolName : { <<"pool">> },
     thinPoolWatcher : BOOLEAN,
     zfsWatcher : BOOLEAN,
     mountIdFile : { [err |-> TRUE, content |-> ""], [err |-> FALSE, content |-> "mnt1"] },
     status : { [err |-> TRUE, parentDataset |-> <<>>],
                [err |-> FALSE, parentDataset |-> <<"tank", "docker">>] },
     inspect : Inspections,
     hop : { [err |-> TRUE, IPAddress |-> ""], [err |-> FALSE, IPAddress |-> "10.0.0.1"] }]

DockerInit ==
    /\ handler = NoHandler
    /\ sampler = NoSampler
    /\ ret = NoRet

\* the call of newDockerContainerHandler that constructs, or fails to construct,
\* the handler of the container
NewDockerContainerHandler ==
    /\ handler = NoHandler
    /\ ret = NoRet
    /\ \E in \in ConstructionInputs :
         LET r == newDockerContainerHandler(in)
         IN /\ handler' = r.handler
            /\ sampler' = IF r.fsCreated THEN NewFsHandler ELSE sampler
            /\ ret' = [op |-> "newDockerContainerHandler",
                       err |-> r.err, panic |-> r.panic, calls |-> r.calls,
                       returned |-> r.handler,
                       storageDriver |-> in.storageDriver,
                       storageDir |-> in.storageDir,
                       inHostNamespace |-> in.inHostNamespace,
                       dockerVersion |-> in.dockerVersion,
                       rwLayerID |-> r.rwLayerID]
    /\ UNCHANGED <<rawVars, netlinkVars, registryVars>>

---------------------------------------------------------------------------
(* The filesystem usage sampler behind dockerFsHandler (common.FsHandler). *)

\* FsHandler.Start
SamplerStart(s) == [s EXCEPT !.running = TRUE]

\* FsHandler.Stop
SamplerStop(s) == [s EXCEPT !.running = FALSE]

\* FsHandler.Usage: the last completed sample
SamplerUsage(s) == s.usage

\* the background walk of a running sampler completes a sample
SamplerSample ==
    /\ sampler # NoSampler
    /\ sampler.running
    /\ \E u \in Samples : sampler' = [sampler EXCEPT !.usage = u]
    /\ UNCHANGED <<handler, ret>>
    /\ UNCHANGED <<rawVars, netlinkVars, registryVars>>

---------------------------------------------------------------------------
(* The Docker container handler: operations. *)

NotAsked == [err |-> FALSE, asked |-> FALSE]

\* Usage with the overlay replacing the total instead of being added to it
DockerFsUsage_Replace(fsh, baseline, thin, zfs) ==
    LET afterThin ==
            IF fsh.thinPoolWatcher /\ ~thin.err
            THEN [baseline EXCEPT !.BaseUsageBytes = thin.usage,
                                  !.TotalUsageBytes = thin.usage]
            ELSE baseline
    IN IF fsh.zfsWatcher /\ ~zfs.err
       THEN [afterThin EXCEPT !.BaseUsageBytes = zfs.usage,
                              !.TotalUsageBytes = zfs.usage]
       ELSE afterThin

\* dockerFsHandler.Usage, given the sampler's snapshot and the watchers' answers
DockerFsUsage(fsh, baseline, thin, zfs) ==
    LET afterThin ==
            IF fsh.thinPoolWatcher /\ ~thin.err
            THEN [baseline EXCEPT !.BaseUsageBytes = thin.usage,
                                  !.TotalUsageBytes = Add64(@, thin.usage)]
            ELSE baseline
    IN IF fsh.zfsWatcher /\ ~zfs.err
       THEN [afterThin EXCEPT !.BaseUsageBytes = zfs.usage,
                              !.TotalUsageBytes = Add64(@, zfs.usage)]
       ELSE afterThin

\* dockerContainerHandler.needNet
needNet(h) ==
    IF NetworkUsageMetrics \in h.includedMetrics
    THEN ~IsContainer(h.networkMode)
    ELSE FALSE

\* dockerContainerHandler.Start: the sampler afterwards, and whether the call faulted
HandlerStart(h, s) ==
    IF h.fsHandler # NoFsHandler
    THEN [sampler |-> SamplerStart(s), panic |-> FALSE]
    ELSE [sampler |-> s, panic |-> FALSE]

\* Cleanup without the nil check: Stop through a nil fsHandler faults
HandlerCleanup_NoNilCheck(h, s) ==
    IF h.fsHandler # NoFsHandler
    THEN [sampler |-> SamplerStop(s), panic |-> FALSE]
    ELSE [sampler |-> s, panic |-> TRUE]

\* dockerContainerHandler.Cleanup: the sampler afterwards, and whether the call faulted
HandlerCleanup(h, s) ==
    IF h.fsHandler # NoFsHandler
    THEN [sampler |-> SamplerStop(s), panic |-> FALSE]
    ELSE [sampler |-> s, panic |-> FALSE]

ZeroNetwork == [RxBytes |-> 0, TxBytes |-> 0]
SomeNetwork == [RxBytes |-> 10, TxBytes |-> 20]
NilStats == [kind |-> "nil"]
ContainerStats(network, filesystem) ==
    [kind |-> "stats", Network |-> network, Filesystem |-> filesystem]

\* what libcontainerHandler.GetStats can return: (stats, err)
CgroupStatsOutcomes ==
    { [err |-> TRUE, stats |-> NilStats],
      [err |-> TRUE, stats |-> ContainerStats(SomeNetwork, <<>>)],
      [err |-> FALSE, stats |-> ContainerStats(SomeNetwork, <<>>)] }

FsSda == [Device |-> <<"dev", "sda1">>, Capacity |-> 100, Type |-> "ext4"]
FsSdaAgain == [Device |-> <<"dev", "sda1">>, Capacity |-> 999, Type |-> "vfs"]
FsPool == [Device |-> <<"pool">>, Capacity |-> 200, Type |-> "devicemapper"]
FsZfs == [Device |-> <<"tank", "docker">>, Capacity |-> 300, Type |-> "zfs"]

\* what machineInfoFactory.GetMachineInfo can return: an error or mi.Filesystems
MachineInfoOutcomes ==
    { [err |-> FALSE, asked |-> TRUE, Filesystems |-> <<>>],
      [err |-> FALSE, asked |-> TRUE, Filesystems |-> <<FsSda, FsSdaAgain>>],
      [err |-> FALSE, asked |-> TRUE, Filesystems |-> <<FsPool, FsZfs, FsSda>>],
      [err |-> TRUE, asked |-> TRUE, Filesystems |-> <<>>] }

\* what fsInfo.GetDirFsDevice can return
DirFsDeviceOutcomes ==
    { [err |-> FALSE, asked |-> TRUE, Device |-> <<"dev", "sda1">>],
      [err |-> TRUE, asked |-> TRUE, Device |-> <<>>] }

AskedWatcherOutcomes ==
    { [err |-> w.err, asked |-> TRUE, usage |-> w.usage] : w \in WatcherOutcomes }

RECURSIVE FirstMatch(_, _)
\* the loop over mi.Filesystems: capacity and type of the first entry of the device
FirstMatch(filesystems, device) ==
    IF filesystems = <<>> THEN [limit |-> 0, fsType |-> ""]
    ELSE IF Head(filesystems).Device = device
    THEN [limit |-> Head(filesystems).Capacity, fsType |-> Head(filesystems).Type]
    ELSE FirstMatch(Tail(filesystems), device)

DirectoryDrivers == { aufsStorageDriver, overlayStorageDriver, overlay2StorageDriver }

\* the error returns of getFsStats, with a failed watcher failing the call too
getFsStatsErr_WatcherFails(h, env) ==
    \/ env.mi.err
    \/ /\ DiskUsageMetrics \in h.includedMetrics
       /\ h.storageDriver \in DirectoryDrivers
       /\ env.dirFs.err
    \/ env.thin.err
    \/ env.zfs.err

\* the error returns of getFsStats: GetMachineInfo failed, or GetDirFsDevice
\* failed for a directory-based driver with disk usage enabled
getFsStatsErr(h, env) ==
    \/ env.mi.err
    \/ /\ DiskUsageMetrics \in h.includedMetrics
       /\ h.storageDriver \in DirectoryDrivers
       /\ env.dirFs.err

\* dockerContainerHandler.getFsStats: the stats afterwards and the error
getFsStats(h, stats, baseline, env) ==
    IF getFsStatsErr(h, env) THEN [stats |-> stats, err |-> TRUE]
    ELSE IF DiskUsageMetrics \notin h.includedMetrics THEN [stats |-> stats, err |-> FALSE]
    ELSE IF h.storageDriver \notin
              DirectoryDrivers \cup { devicemapperStorageDriver, zfsStorageDriver }
    THEN [stats |-> stats, err |-> FALSE]
    ELSE
    LET device == IF h.storageDriver = devicemapperStorageDriver THEN h.poolName
                  ELSE IF h.storageDriver = zfsStorageDriver THEN h.zfsParent
                  ELSE env.dirFs.Device
        match == FirstMatch(env.mi.Filesystems, device)
        usage == DockerFsUsage(h.fsHandler, baseline, env.thin, env.zfs)
        fsStat == [Device |-> device, Type |-> match.fsType, Limit |-> match.limit,
                   BaseUsage |-> usage.BaseUsageBytes,
                   Usage |-> usage.TotalUsageBytes,
                   Inodes |-> usage.InodeUsage]
    IN [stats |-> [stats EXCEPT !.Filesystem = Append(@, fsStat)], err |-> FALSE]

\* dockerContainerHandler.GetStats: (stats, err)
GetStats(h, baseline, env) ==
    IF env.cg.err THEN [stats |-> env.cg.stats, err |-> TRUE]
    ELSE LET cleaned == IF ~needNet(h)
                        THEN [env.cg.stats EXCEPT !.Network = ZeroNetwork]
                        ELSE env.cg.stats
         IN getFsStats(h, cleaned, baseline, env)

\* getFsStats reaches self.fsHandler.Usage()
ReachesUsage(h, env) ==
    /\ ~env.cg.err
    /\ ~env.mi.err
    /\ DiskUsageMetrics \in h.includedMetrics
    /\ \/ h.storageDriver \in { devicemapperStorageDriver, zfsStorageDriver }
       \/ h.storageDriver \in DirectoryDrivers /\ ~env.dirFs.err

\* the collaborators' answers during one GetStats; a collaborator the call
\* never reaches answers nothing
StatsEnvs(h) ==
    { env \in [cg : CgroupStatsOutcomes,
               mi : MachineInfoOutcomes \cup {NotAsked},
               dirFs : DirFsDeviceOutcomes \cup {NotAsked},
               thin : AskedWatcherOutcomes \cup {NotAsked},
               zfs : AskedWatcherOutcomes \cup {NotAsked}] :
        /\ env.mi.asked <=> ~env.cg.err
        /\ env.dirFs.asked <=>
              /\ ~env.cg.err /\ ~env.mi.err
              /\ DiskUsageMetrics \in h.includedMetrics
              /\ h.storageDriver \in DirectoryDrivers
        /\ env.thin.asked <=> (ReachesUsage(h, env) /\ h.fsHandler.thinPoolWatcher)
        /\ env.zfs.asked <=> (ReachesUsage(h, env) /\ h.fsHandler.zfsWatcher) }

\* the watchers' answers during one dockerFsHandler.Usage
UsageEnvs(fsh) ==
    { env \in [thin : AskedWatcherOutcomes \cup {NotAsked},
               zfs : AskedWatcherOutcomes \cup {NotAsked}] :
        /\ env.thin.asked <=> fsh.thinPoolWatcher
        /\ env.zfs.asked <=> fsh.zfsWatcher }

\* one call of handler.Start()
Start ==
    /\ handler # NoHandler
    /\ LET r == HandlerStart(handler, sampler)
       IN /\ sampler' = r.sampler
          /\ ret' = [op |-> "Start", panic |-> r.panic, prev |-> ret.op]
    /\ UNCHANGED handler
    /\ UNCHANGED <<rawVars, netlinkVars, registryVars>>

\* one call of handler.Cleanup()
Cleanup ==
    /\ handler # NoHandler
    /\ LET r == HandlerCleanup(handler, sampler)
       IN /\ sampler' = r.sampler
          /\ ret' = [op |-> "Cleanup", panic |-> r.panic, prev |-> ret.op]
    /\ UNCHANGED handler
    /\ UNCHANGED <<rawVars, netlinkVars, registryVars>>

\* one call of handler.fsHandler.Usage()
Usage ==
    /\ handler # NoHandler
    /\ handler.fsHandler # NoFsHandler
    /\ \E env \in UsageEnvs(handler.fsHandler) :
         ret' = [op |-> "Usage", env |-> env, baseline |-> SamplerUsage(sampler),
                 usage |-> DockerFsUsage(handler.fsHandler, SamplerUsage(sampler),
                                         env.thin, env.zfs)]
    /\ UNCHANGED <<handler, sampler>>
    /\ UNCHANGED <<rawVars, netlinkVars, registryVars>>

\* one call of handler.GetStats()
DockerGetStats ==
    /\ handler # NoHandler
    /\ \E env \in StatsEnvs(handler) :
         LET baseline == IF sampler = NoSampler THEN ZeroUsage ELSE SamplerUsage(sampler)
             r == GetStats(handler, baseline, env)
         IN ret' = [op |-> "GetStats", env |-> env, baseline |-> baseline,
                    stats |-> r.stats, err |-> r.err]
    /\ UNCHANGED <<handler, sampler>>
    /\ UNCHANGED <<rawVars, netlinkVars, registryVars>>

---------------------------------------------------------------------------
(* The netlink cpu-load reader. *)

Callers == 1..MaxCallers

NoReader == [kind |-> "nil"]
NoConnection == [kind |-> "nil"]

\* info.LoadStats
ZeroLoadStats == [NrRunning |-> 0, NrIoWait |-> 0]
SomeLoadStats == [NrRunning |-> 2, NrIoWait |-> 1]

\* the family id the kernel assigns to taskstats
TaskstatsFamilyId == 23

CgroupPaths == { EmptyString, <<"/", "c", "g">> }
ContainerNames == { EmptyString, <<"c", "1">> }

\* os.Open(path): an error or a descriptor; the empty path never opens
OpenOutcomes(path) == IF path = EmptyString THEN { "error" } ELSE { "error", "fd" }

\* the entry of GetCpuLoad with the empty path reported as a success
GetCpuLoadEntry_NilError(path, open) ==
    IF Len(path) = 0
    THEN [returns |-> TRUE, err |-> FALSE, stats |-> ZeroLoadStats, opened |-> FALSE]
    ELSE IF open = "error"
    THEN [returns |-> TRUE, err |-> TRUE, stats |-> ZeroLoadStats, opened |-> FALSE]
    ELSE [returns |-> FALSE, err |-> FALSE, stats |-> ZeroLoadStats, opened |-> TRUE]

\* the first statements of GetCpuLoad, up to and including os.Open:
\* either the call returns at once or it goes on holding a descriptor
GetCpuLoadEntry(path, open) ==
    IF Len(path) = 0
    THEN [returns |-> TRUE, err |-> TRUE, stats |-> ZeroLoadStats, opened |-> FALSE]
    ELSE IF open = "error"
    THEN [returns |-> TRUE, err |-> TRUE, stats |-> ZeroLoadStats, opened |-> FALSE]
    ELSE [returns |-> FALSE, err |-> FALSE, stats |-> ZeroLoadStats, opened |-> TRUE]

\* GetCpuLoad handing the request over without waiting for its reply
AfterRequest_ReturnsAtOnce == "idle"

\* where a caller is once its request is sent: the call to getLoadStats is
\* synchronous, the caller stays inside it until the reply is read
AfterRequest == "awaiting"

\* the descriptor closed only when the kernel query succeeded
DeferredClose_OnSuccessOnly(c, fds, err) ==
    IF err THEN fds ELSE [fds EXCEPT !.held[c] = FALSE, !.closed = @ + 1]

\* defer cfd.Close(): the descriptor caller c opened is closed when its call
\* returns, whatever the call returns
DeferredClose(c, fds, err) == [fds EXCEPT !.held[c] = FALSE, !.closed = @ + 1]

\* the end of GetCpuLoad: what it returns for the answer of getLoadStats
GetCpuLoadReturn(reply) ==
    IF reply.err THEN [err |-> TRUE, stats |-> ZeroLoadStats]
    ELSE [err |-> FALSE, stats |-> reply.stats]

NetlinkInit ==
    /\ reader = NoReader
    /\ conn = [state |-> "none", sent |-> 0, received |-> 0, closes |-> 0,
               queue |-> <<>>]
    /\ pc = [c \in Callers |-> "idle"]
    /\ cfd = [held |-> [c \in Callers |-> FALSE], opened |-> 0, closed |-> 0]
    /\ nlRet = [c \in Callers \cup {0} |-> NoRet]

\* netlink.New(): newConnection, then getFamilyId on the connection
New ==
    /\ reader = NoReader
    /\ conn.state = "none"
    /\ \E outcome \in { "connection failed", "handshake failed", "ok" } :
         /\ conn' = IF outcome = "connection failed" THEN conn
                    ELSE [conn EXCEPT !.state = "open",
                                      !.sent = IF outcome = "ok" THEN 1 ELSE @,
                                      !.received = IF outcome = "ok" THEN 1 ELSE @]
         /\ reader' = IF outcome = "ok"
                      THEN [kind |-> "reader", familyId |-> TaskstatsFamilyId,
                            conn |-> [kind |-> "conn"]]
                      ELSE NoReader
         /\ nlRet' = [nlRet EXCEPT ![0] = [op |-> "New", err |-> outcome # "ok"]]
    /\ UNCHANGED <<pc, cfd>>
    /\ UNCHANGED <<rawVars, dockerVars, registryVars>>

\* NetlinkReader.Stop()
Stop ==
    /\ reader # NoReader
    /\ conn.closes < MaxRequests
    /\ conn' = IF reader.conn # NoConnection
               THEN [conn EXCEPT !.state = "closed", !.closes = @ + 1]
               ELSE conn
    /\ nlRet' = [nlRet EXCEPT ![0] = [op |-> "Stop"]]
    /\ UNCHANGED <<reader, pc, cfd>>
    /\ UNCHANGED <<rawVars, dockerVars, registryVars>>

\* a caller enters GetCpuLoad(name, path): the path check and os.Open
GetCpuLoadCall(c) ==
    /\ reader # NoReader
    /\ pc[c] = "idle"
    /\ \E name \in ContainerNames, path \in CgroupPaths :
       \E open \in OpenOutcomes(path) :
         LET e == GetCpuLoadEntry(path, open)
         IN /\ e.opened => cfd.opened < MaxRequests
            /\ cfd' = IF e.opened
                      THEN [cfd EXCEPT !.held[c] = TRUE, !.opened = @ + 1]
                      ELSE cfd
            /\ pc' = [pc EXCEPT ![c] = IF e.returns THEN "idle" ELSE "opened"]
            /\ nlRet' = [nlRet EXCEPT ![c] =
                            [op |-> "GetCpuLoad", name |-> name, path |-> path,
                             returned |-> e.returns, err |-> e.err, stats |-> e.stats,
                             replyTo |-> 0]]
    /\ UNCHANGED <<reader, conn>>
    /\ UNCHANGED <<rawVars, dockerVars, registryVars>>

\* getLoadStats sends the request on the connection; a failure to send
\* ends the call, closing the descriptor on the way out
GetCpuLoadSend(c) ==
    /\ pc[c] = "opened"
    /\ \E sendOk \in IF conn.state = "open" THEN BOOLEAN ELSE { FALSE } :
         IF sendOk
         THEN /\ conn' = [conn EXCEPT !.sent = @ + 1, !.queue = Append(@, c)]
              /\ pc' = [pc EXCEPT ![c] = AfterRequest]
              /\ UNCHANGED <<cfd, nlRet>>
         ELSE LET r == GetCpuLoadReturn([err |-> TRUE, stats |-> ZeroLoadStats])
              IN /\ cfd' = DeferredClose(c, cfd, r.err)
                 /\ pc' = [pc EXCEPT ![c] = "idle"]
                 /\ nlRet' = [nlRet EXCEPT ![c].returned = TRUE, ![c].err = r.err,
                                           ![c].stats = r.stats]
                 /\ UNCHANGED conn
    /\ UNCHANGED reader
    /\ UNCHANGED <<rawVars, dockerVars, registryVars>>

\* getLoadStats reads one reply and GetCpuLoad returns, closing the descriptor;
\* replies carry no request id: the reply read is the one to the oldest
\* request still unanswered on the connection
GetCpuLoadReceive(c) ==
    /\ pc[c] = "awaiting"
    /\ conn.queue # <<>>
    /\ \E reply \in IF conn.state = "open"
                    THEN { [err |-> TRUE, stats |-> ZeroLoadStats],
                           [err |-> FALSE, stats |-> SomeLoadStats],
                           [err |-> FALSE, stats |-> ZeroLoadStats] }
                    ELSE { [err |-> TRUE, stats |-> ZeroLoadStats] } :
         LET r == GetCpuLoadReturn(reply)
         IN /\ conn' = [conn EXCEPT !.received = IF reply.err THEN @ ELSE @ + 1,
                                     !.queue = Tail(@)]
            /\ cfd' = DeferredClose(c, cfd, r.err)
            /\ pc' = [pc EXCEPT ![c] = "idle"]
            /\ nlRet' = [nlRet EXCEPT ![c].returned = TRUE, ![c].err = r.err,
                                      ![c].stats = r.stats,
                                      ![c].replyTo = Head(conn.queue)]
    /\ UNCHANGED reader
    /\ UNCHANGED <<rawVars, dockerVars, registryVars>>

---------------------------------------------------------------------------
(* Registration of the raw and the rkt factory. *)

\* watch.Raw and watcher.Rkt, among the sources the registry knows
RawSource == "Raw"
RktSource == "Rkt"
ContainerWatchSources == { RawSource, RktSource, "Docker" }

\* the registry before any Register call
NoFactories == [s \in ContainerWatchSources |-> <<>>]

RECURSIVE RegisterContainerHandlerFactory(_, _, _)
\* container.RegisterContainerHandlerFactory: the factory is appended to the
\* list of every watch source it is tagged with
RegisterContainerHandlerFactory(registry, factory, watchTypes) ==
    IF watchTypes = <<>> THEN registry
    ELSE RegisterContainerHandlerFactory(
             [registry EXCEPT ![Head(watchTypes)] = Append(@, factory)],
             factory, Tail(watchTypes))

\* what libcontainer.GetCgroupSubsystems can return: an error, or the mounts
CgroupSubsystemsOutcomes ==
    { [err |-> TRUE, asked |-> TRUE, mounts |-> 0],
      [err |-> FALSE, asked |-> TRUE, mounts |-> 0],
      [err |-> FALSE, asked |-> TRUE, mounts |-> 2] }

\* what common.NewInotifyWatcher, Client and RktPath can return
CallOutcomes == { [err |-> TRUE, asked |-> TRUE], [err |-> FALSE, asked |-> TRUE] }

\* allow-lists handed to raw.Register
RegisterWhiteLists == { <<>>, <<EmptyString>>, <<<<"/", "a">>>> }

\* the surroundings of one raw.Register call; a collaborator the call does
\* not reach is not asked
RawRegisterEnvs ==
    { e \in [subsystems : CgroupSubsystemsOutcomes,
             watcher : CallOutcomes \cup {NotAsked}] :
        e.watcher.asked <=> (~e.subsystems.err /\ e.subsystems.mounts > 0) }

\* the surroundings of one rkt.Register call
RktRegisterEnvs ==
    { e \in [client : CallOutcomes,
             rktPath : CallOutcomes \cup {NotAsked},
             subsystems : CgroupSubsystemsOutcomes
                          \cup {[err |-> FALSE, asked |-> FALSE, mounts |-> 0]}] :
        /\ e.rktPath.asked <=> ~e.client.err
        /\ e.subsystems.asked <=> (e.rktPath.asked /\ ~e.rktPath.err) }

\* raw.Register installing the factory before the inotify watcher is created
raw_Register_FactoryBeforeWatcher(registry, whiteList, env) ==
    IF env.subsystems.err THEN [err |-> TRUE, factories |-> registry]
    ELSE IF env.subsystems.mounts = 0 THEN [err |-> TRUE, factories |-> registry]
    ELSE [err |-> env.watcher.err,
          factories |-> RegisterContainerHandlerFactory(registry,
                            [kind |-> "raw", rawPrefixWhiteList |-> whiteList],
                            <<RawSource>>)]

\* raw.Register: its error, and the registry it leaves
raw_Register(registry, whiteList, env) ==
    IF env.subsystems.err THEN [err |-> TRUE, factories |-> registry]
    ELSE IF env.subsystems.mounts = 0 THEN [err |-> TRUE, factories |-> registry]
    ELSE IF env.watcher.err THEN [err |-> TRUE, factories |-> registry]
    ELSE [err |-> FALSE,
          factories |-> RegisterContainerHandlerFactory(registry,
                            [kind |-> "raw", rawPrefixWhiteList |-> whiteList],
                            <<RawSource>>)]

\* rkt.Register: its error, and the registry it leaves
rkt_Register(registry, env) ==
    IF env.client.err THEN [err |-> TRUE, factories |-> registry]
    ELSE IF env.rktPath.err THEN [err |-> TRUE, factories |-> registry]
    ELSE IF env.subsystems.err THEN [err |-> TRUE, factories |-> registry]
    ELSE IF env.subsystems.mounts = 0 THEN [err |-> TRUE, factories |-> registry]
    ELSE [err |-> FALSE,
          factories |-> RegisterContainerHandlerFactory(registry,
                            [kind |-> "rkt", rawPrefixWhiteList |-> <<>>],
                            <<RktSource>>)]

RegistryInit ==
    /\ factories = NoFactories
    /\ regRet = [op |-> "none", n |-> 0]

\* one call of raw.Register
RawRegister ==
    /\ regRet.n < MaxRegisterCalls
    /\ \E whiteList \in RegisterWhiteLists, env \in RawRegisterEnvs :
         LET r == raw_Register(factories, whiteList, env)
         IN /\ factories' = r.factories
            /\ regRet' = [op |-> "raw.Register", n |-> regRet.n + 1,
                          env |-> env, err |-> r.err]
    /\ UNCHANGED <<rawVars, dockerVars, netlinkVars>>

\* one call of rkt.Register
RktRegister ==
    /\ regRet.n < MaxRegisterCalls
    /\ \E env \in RktRegisterEnvs :
         LET r == rkt_Register(factories, env)
         IN /\ factories' = r.factories
            /\ regRet' = [op |-> "rkt.Register", n |-> regRet.n + 1,
                          env |-> env, err |-> r.err]
    /\ UNCHANGED <<rawVars, dockerVars, netlinkVars>>

---------------------------------------------------------------------------
(* Specifications. *)

InitRaw == RawInit /\ DockerInit /\ NetlinkInit /\ RegistryInit
NextRaw == RawCanHandleAndAccept
SpecRaw == InitRaw /\ [][NextRaw]_vars

InitDocker == RawIdle /\ DockerInit /\ NetlinkInit /\ RegistryInit
NextDocker ==
    \/ NewDockerContainerHandler
    \/ Start
    \/ Cleanup
    \/ SamplerSample
    \/ Usage
    \/ DockerGetStats
SpecDocker == InitDocker /\ [][NextDocker]_vars

InitNetlink == RawIdle /\ DockerInit /\ NetlinkInit /\ RegistryInit
NextNetlink ==
    \/ New
    \/ Stop
    \/ \E c \in Callers : GetCpuLoadCall(c)
    \/ \E c \in Callers : GetCpuLoadSend(c)
    \/ \E c \in Callers : GetCpuLoadReceive(c)
SpecNetlink == InitNetlink /\ [][NextNetlink]_vars

InitRegistry == RawIdle /\ DockerInit /\ NetlinkInit /\ RegistryInit
NextRegistry ==
    \/ RawRegister
    \/ RktRegister
SpecRegistry == InitRegistry /\ [][NextRegistry]_vars

---------------------------------------------------------------------------
(* Properties of the raw factory (checked under SpecRaw). *)

RawCalled == rawRet.op = "CanHandleAndAccept"

\* C1: for every non-root name that matches no prefix of the allow-list,
\* CanHandleAndAccept returns normally with canHandle = true and no error, and
\* shouldAccept is decided by the docker_only flag alone: false when the flag
\* is set, true when it is not, whatever the allow-list holds.
C1_FlagAloneDecides ==
    (/\ RawCalled
     /\ rawRet.name # RootName
     /\ \A i \in 1..Len(rawPrefixWhiteList) :
            ~HasPrefix(rawRet.name, rawPrefixWhiteList[i]))
    => /\ ~rawRet.res.panic
       /\ rawRet.res.canHandle
       /\ ~rawRet.res.err
       /\ rawRet.res.shouldAccept = ~dockerOnly

\* C2: with docker_only set and an empty allow-list, CanHandleAndAccept
\* returns normally with a nil error: (true, true) for "/" and (true, false)
\* for every other name.
C2_RuntimeOnlyEmptyList ==
    (RawCalled /\ dockerOnly /\ rawPrefixWhiteList = <<>>)
    => /\ ~rawRet.res.panic
       /\ ~rawRet.res.err
       /\ rawRet.res.canHandle
       /\ rawRet.res.shouldAccept = (rawRet.name = RootName)

\* C3: CanHandleAndAccept returns canHandle = true and a nil error for every
\* name, and shouldAccept = true for "/" and for every name that has some
\* allow-list entry as a prefix, whatever the flag, the position of the entry
\* and the other entries.
C3_RootAndAllowListedAccepted ==
    RawCalled
    => /\ ~rawRet.res.panic
       /\ rawRet.res.canHandle
       /\ ~rawRet.res.err
       /\ (\/ rawRet.name = RootName
           \/ \E i \in 1..Len(rawPrefixWhiteList) :
                 HasPrefix(rawRet.name, rawPrefixWhiteList[i]))
          => rawRet.res.shouldAccept

---------------------------------------------------------------------------
(* Properties of the Docker container handler (checked under SpecDocker). *)

Constructed == ret.op = "newDockerContainerHandler" /\ handler # NoHandler

\* the storage root as the handler sees it
SeenStorageRoot ==
    IF ret.inHostNamespace THEN ret.storageDir ELSE <<"rootfs">> \o ret.storageDir

\* root/driver/mount-id/subdirectory
MountIdThenSubdir(subdir) ==
    SeenStorageRoot \o <<handler.storageDriver>> \o Elem(ret.rwLayerID) \o <<subdir>>

\* C4 as stated: for aufs, overlay and overlay2 alike the writable-layer
\* directory is storage root, driver name, mount identifier, subdirectory
\* ("diff", "upper", "diff"), the root prefixed with /rootfs outside the host
\* namespace.
C4_SameOrderForAllDrivers ==
    Constructed =>
        /\ handler.storageDriver = "aufs"
              => handler.rootfsStorageDir = MountIdThenSubdir("diff")
        /\ handler.storageDriver = "overlay"
              => handler.rootfsStorageDir = MountIdThenSubdir("upper")
        /\ handler.storageDriver = "overlay2"
              => handler.rootfsStorageDir = MountIdThenSubdir("diff")

\* C4 (amended): for overlay and overlay2 the writable-layer directory is
\* storage root, driver name, mount identifier, subdirectory ("upper",
\* "diff"); for aufs it is storage root, "aufs", "diff", mount identifier;
\* the root is prefixed with /rootfs outside the host namespace.
C4_WritableLayerDir ==
    Constructed =>
        /\ handler.storageDriver = "aufs"
              => handler.rootfsStorageDir =
                    SeenStorageRoot \o <<"aufs", "diff">> \o Elem(ret.rwLayerID)
        /\ handler.storageDriver = "overlay"
              => handler.rootfsStorageDir = MountIdThenSubdir("upper")
        /\ handler.storageDriver = "overlay2"
              => handler.rootfsStorageDir = MountIdThenSubdir("diff")

C4_Witness ==
    /\ Constructed
    /\ handler.storageDriver = "overlay"
    /\ ~ret.inHostNamespace
    /\ ret.rwLayerID = "mnt1"
    /\ handler.rootfsStorageDir = <<"rootfs", "var", "lib", "docker", "overlay", "mnt1", "upper">>

UsageCalled == ret.op = "Usage"

\* the one overlay source of a dockerFsHandler that has exactly one
OnlyWatcher ==
    IF handler.fsHandler.thinPoolWatcher THEN ret.env.thin ELSE ret.env.zfs

\* C5: dockerFsHandler.Usage with exactly one overlay source: on a successful
\* watcher value V the result is {Base = V, Total = B.Total + V (uint64
\* addition), Inodes = B.Inodes}; on a watcher error the result is the sampler
\* baseline B; with no overlay source the result is B.  B = {1000, 2000, 5}
\* and V = 500000 give {500000, 502000, 5}.
C5_UsageOverlay ==
    UsageCalled =>
        LET fsh == handler.fsHandler
            B == ret.baseline
            one == fsh.thinPoolWatcher # fsh.zfsWatcher
            none == ~fsh.thinPoolWatcher /\ ~fsh.zfsWatcher
        IN /\ (one /\ ~OnlyWatcher.err) =>
                 /\ ret.usage.BaseUsageBytes = OnlyWatcher.usage
                 /\ ret.usage.TotalUsageBytes = Add64(B.TotalUsageBytes, OnlyWatcher.usage)
                 /\ ret.usage.InodeUsage = B.InodeUsage
           /\ (one /\ OnlyWatcher.err) => ret.usage = B
           /\ none => ret.usage = B
           /\ (/\ one /\ ~OnlyWatcher.err
               /\ OnlyWatcher.usage = <<0, 0, 7, 41248>>
               /\ B = FsUsage(<<0, 0, 0, 1000>>, <<0, 0, 0, 2000>>, <<0, 0, 0, 5>>))
              => ret.usage = FsUsage(<<0, 0, 7, 41248>>, <<0, 0, 7, 43248>>, <<0, 0, 0, 5>>)

C5_Witness ==
    /\ UsageCalled
    /\ handler.fsHandler.thinPoolWatcher /\ ~handler.fsHandler.zfsWatcher
    /\ handler.fsHandler.deviceID = "pool-dev-1"
    /\ ~ret.env.thin.err
    /\ ret.env.thin.usage = <<0, 0, 7, 41248>>
    /\ ret.baseline = FsUsage(<<0, 0, 0, 1000>>, <<0, 0, 0, 2000>>, <<0, 0, 0, 5>>)
    /\ ret.usage.TotalUsageBytes = <<0, 0, 7, 43248>>

\* the overlay sources of the handler that answered the Usage call
ThinSucceeded == handler.fsHandler.thinPoolWatcher /\ ~ret.env.thin.err
ZfsSucceeded == handler.fsHandler.zfsWatcher /\ ~ret.env.zfs.err

\* C13 as stated: every snapshot Usage returns after at least one overlay
\* source succeeded has TotalUsageBytes >= BaseUsageBytes, for every sampler
\* baseline and every overlay value representable in uint64.
C13_TotalAtLeastBase ==
    (UsageCalled /\ (ThinSucceeded \/ ZfsSucceeded)) =>
        Geq64(ret.usage.TotalUsageBytes, ret.usage.BaseUsageBytes)

\* none of the uint64 additions of the Usage call wrapped around
UsageSumsFit ==
    LET B == ret.baseline.TotalUsageBytes
        afterThin == IF ThinSucceeded THEN Add64(B, ret.env.thin.usage) ELSE B
    IN /\ ThinSucceeded => ~Wraps64(B, ret.env.thin.usage)
       /\ ZfsSucceeded => ~Wraps64(afterThin, ret.env.zfs.usage)

\* C13 (amended): every snapshot Usage returns after at least one overlay
\* source succeeded has TotalUsageBytes >= BaseUsageBytes provided the sum of
\* the baseline total and the overlay values fits in 64 bits; the addition is
\* Go's wrapping uint64 addition, so a sum past 2^64 - 1 yields a total
\* below the base.
C13_TotalAtLeastBaseWhenSumsFit ==
    (UsageCalled /\ (ThinSucceeded \/ ZfsSucceeded) /\ UsageSumsFit) =>
        Geq64(ret.usage.TotalUsageBytes, ret.usage.BaseUsageBytes)

C13_Witness ==
    /\ UsageCalled
    /\ ZfsSucceeded
    /\ UsageSumsFit
    /\ ret.baseline.TotalUsageBytes = <<0, 0, 0, 2000>>
    /\ ret.usage.BaseUsageBytes = <<0, 0, 7, 41248>>
    /\ ret.usage.TotalUsageBytes = <<0, 0, 7, 43248>>

StatsCalled == ret.op = "GetStats"

\* C6: every ContainerStats value GetStats returns for a handler whose
\* network mode is container:<id> has a zero network sub-record, on every
\* return path, the ones that carry an error included.
C6_SharedNetnsZeroNetwork ==
    (StatsCalled /\ IsContainer(handler.networkMode) /\ ret.stats # NilStats)
    => ret.stats.Network = ZeroNetwork

ConstructionTried == ret.op = "newDockerContainerHandler"

\* a call the constructor made (reading the mount-id file, the driver status
\* query, an inspection, parsing the creation timestamp) failed
SomeCallFailed == \E i \in 1..Len(ret.calls) : ~ret.calls[i].ok

\* C7: if reading the mount-id file, the driver status query, the container
\* inspection, the parse of the creation timestamp or the inspection of the
\* network-namespace owner fails, newDockerContainerHandler returns an error
\* and no handler, and no sampler has been created or started.
C7_ConstructionAllOrNothing ==
    (ConstructionTried /\ SomeCallFailed)
    => /\ ret.err
       /\ ret.returned = NoHandler
       /\ handler = NoHandler
       /\ sampler = NoSampler

C7_Witness ==
    /\ ConstructionTried
    /\ ret.err
    /\ Len(ret.calls) = 4
    /\ ret.calls[1].call = "ReadFile" /\ ret.calls[1].ok
    /\ ret.calls[4].call = "ContainerInspect" /\ ret.calls[4].arg = <<"peer">>
    /\ ~ret.calls[4].ok
    /\ sampler = NoSampler

\* a control-plane version older than 1.10, compared by major, then minor
OlderThan110(v) == v[1] < 1 \/ (v[1] = 1 /\ v[2] < 10)

\* the reads of a file the constructor made
FileReads == { i \in 1..Len(ret.calls) : ret.calls[i].call = "ReadFile" }

\* the mapping file of container abc123 under the driver's name
MappingFile ==
    SeenStorageRoot \o <<"image", ret.storageDriver, "layerdb", "mounts", "abc123",
                         "mount-id">>

\* C14: for every control-plane version older than 1.10 (by major, then
\* minor) the mount identifier is the container id and no mapping file is
\* read; for every version 1.10 or newer the mapping file keyed by the
\* container id under the driver's name is read, its content is the mount
\* identifier, and if it cannot be read the result is an error with no
\* identifier.
C14_MountIdentifierByVersion ==
    ConstructionTried =>
        /\ OlderThan110(ret.dockerVersion) =>
               /\ FileReads = {}
               /\ handler # NoHandler => ret.rwLayerID = "abc123"
        /\ ~OlderThan110(ret.dockerVersion) =>
               /\ FileReads = {1}
               /\ ret.calls[1].arg = MappingFile
               /\ (ret.calls[1].ok /\ handler # NoHandler) => ret.rwLayerID = "mnt1"
               /\ ~ret.calls[1].ok => (ret.err /\ handler = NoHandler /\ ret.rwLayerID = "")

\* the filesystem sub-record GetStats appended
ReportedFsStat == ret.stats.Filesystem[Len(ret.stats.Filesystem)]

FsStatReported ==
    StatsCalled /\ ret.stats # NilStats /\ ~ret.err /\ Len(ret.stats.Filesystem) > 0

\* some overlay watcher was asked and every watcher asked returned an error
OverlaySkipped ==
    /\ ret.env.thin.asked \/ ret.env.zfs.asked
    /\ ret.env.thin.asked => ret.env.thin.err
    /\ ret.env.zfs.asked => ret.env.zfs.err

NoInventoryMatch ==
    \A i \in 1..Len(ret.env.mi.Filesystems) :
        ret.env.mi.Filesystems[i].Device # ReportedFsStat.Device

\* C8 as stated: when the cgroup-stats collaborator and the machine-info
\* provider succeed, GetStats returns a nil error.
C8_CgroupAndMachineInfoSuffice ==
    (StatsCalled /\ ~ret.env.cg.err /\ ~ret.env.mi.err) => ~ret.err

\* C8 (amended): when the cgroup-stats collaborator and the machine-info
\* provider succeed and, for a directory-based driver with disk usage
\* enabled, the device lookup of the writable-layer directory succeeds,
\* GetStats returns a nil error even if the overlay watchers fail (the
\* sampler baseline is reported) and even if no inventory entry matches the
\* accounting device (zero limit, empty type).
C8_RecoverablePerPoll ==
    (StatsCalled /\ ~ret.env.cg.err /\ ~ret.env.mi.err /\ ~ret.env.dirFs.err)
    => /\ ~ret.err
       /\ ret.stats # NilStats
       /\ (ret.env.thin.asked \/ ret.env.zfs.asked) => FsStatReported
       /\ (FsStatReported /\ OverlaySkipped) =>
             /\ ReportedFsStat.BaseUsage = ret.baseline.BaseUsageBytes
             /\ ReportedFsStat.Usage = ret.baseline.TotalUsageBytes
             /\ ReportedFsStat.Inodes = ret.baseline.InodeUsage
       /\ (FsStatReported /\ NoInventoryMatch) =>
             /\ ReportedFsStat.Limit = 0
             /\ ReportedFsStat.Type = ""

C8_Witness ==
    /\ FsStatReported
    /\ ret.env.thin.asked /\ ret.env.thin.err
    /\ ret.env.zfs.asked /\ ret.env.zfs.err
    /\ NoInventoryMatch
    /\ ret.baseline.TotalUsageBytes = <<0, 0, 0, 2000>>
    /\ ReportedFsStat.Usage = <<0, 0, 0, 2000>>
    /\ ReportedFsStat.Limit = 0

\* C9: no Start or Cleanup call on a handler faults, with or without a
\* sampler and whatever calls came before, and after a Cleanup the handler's
\* sampler is not running.
C9_CleanupStopsSampler ==
    /\ ret.op \in { "Start", "Cleanup" } => ~ret.panic
    /\ ret.op = "Cleanup" => (sampler = NoSampler \/ ~sampler.running)
    /\ (handler # NoHandler /\ handler.fsHandler = NoFsHandler) => sampler = NoSampler

C9_Witness ==
    /\ ret.op = "Cleanup"
    /\ ret.prev = "Cleanup"
    /\ ~ret.panic
    /\ sampler # NoSampler
    /\ ~sampler.running
    /\ sampler.usage # ZeroUsage

---------------------------------------------------------------------------
(* Properties of the netlink reader (checked under SpecNetlink). *)

\* caller c's call of GetCpuLoad with the empty path is this step
EmptyPathCall(c) ==
    /\ pc[c] = "idle"
    /\ nlRet'[c] # nlRet[c]
    /\ nlRet'[c].op = "GetCpuLoad"
    /\ nlRet'[c].path = EmptyString

\* C10: GetCpuLoad with an empty path returns, for every name, an error and
\* a zero load record, opens no descriptor, sends and receives nothing on the
\* connection and leaves the reader and its connection as they were.
C10_EmptyPathNoIO ==
    [][\A c \in Callers :
          EmptyPathCall(c) =>
              /\ nlRet'[c].returned
              /\ nlRet'[c].err
              /\ nlRet'[c].stats = ZeroLoadStats
              /\ pc'[c] = "idle"
              /\ UNCHANGED <<reader, conn, cfd>>]_vars

C10_Witness ==
    \E c \in Callers :
        /\ nlRet[c].op = "GetCpuLoad"
        /\ nlRet[c].path = EmptyString
        /\ nlRet[c].name = <<"c", "1">>
        /\ nlRet[c].err
        /\ conn.state = "open"
        /\ conn.sent = 2

\* the requests sent on the connection whose replies have not been read
InFlight == Len(conn.queue)

\* C11 as stated: under every interleaving of GetCpuLoad calls on one
\* reader, concurrent callers included, at most one request is in flight: no
\* request is sent while an earlier one awaits its reply, and each call reads
\* the reply to its own request.
C11_OneRequestInFlight ==
    /\ InFlight <= 1
    /\ \A c \in Callers :
          (nlRet[c].op = "GetCpuLoad" /\ nlRet[c].replyTo # 0) => nlRet[c].replyTo = c

\* caller c sends its request in this step while no other caller is inside
\* GetCpuLoad
SerializedSend(c) ==
    /\ pc[c] = "opened"
    /\ conn'.sent = conn.sent + 1
    /\ \A d \in Callers \ {c} : pc[d] = "idle"

\* C11 (amended): when the callers of one reader serialize, at most one
\* request is in flight: a call that sends its request while no other call is
\* inside GetCpuLoad finds no earlier request awaiting its reply and stays in
\* the call until its own reply is read; the reader itself does not serialize
\* concurrent callers.
C11_SerializedOneInFlight ==
    [][\A c \in Callers :
          SerializedSend(c) =>
              /\ conn.queue = <<>>
              /\ conn'.queue = <<c>>
              /\ pc'[c] = "awaiting"]_vars

C11_Witness ==
    \E c \in Callers :
        /\ pc[c] = "awaiting"
        /\ \A d \in Callers \ {c} : pc[d] = "idle" /\ nlRet[d].op = "GetCpuLoad"
                                    /\ nlRet[d].replyTo = d
        /\ conn.queue = <<c>>
        /\ conn.sent = 3

\* the callers that are inside GetCpuLoad past os.Open
HoldingCallers == { c \in Callers : pc[c] \in { "opened", "awaiting" } }

\* C15: GetCpuLoad never leaks the cgroup directory descriptor: a caller
\* that is not inside a call holds no descriptor, whichever way its last call
\* ended (empty path, open failure, kernel query failure, success), every
\* descriptor opened is either closed or held by a call still running, and
\* the descriptor is open for as long as the call is between os.Open and its
\* return, the whole request/reply exchange included.
C15_DescriptorNeverLeaks ==
    /\ \A c \in Callers : cfd.held[c] <=> c \in HoldingCallers
    /\ cfd.opened = cfd.closed + Cardinality(HoldingCallers)

C15_Witness ==
    \E c \in Callers :
        /\ \A d \in Callers : pc[d] = "idle"
        /\ nlRet[c].op = "GetCpuLoad" /\ nlRet[c].returned
        /\ ~nlRet[c].err /\ nlRet[c].stats = SomeLoadStats
        /\ \E d \in Callers : nlRet[d].op = "GetCpuLoad" /\ nlRet[d].err
                              /\ nlRet[d].path # EmptyString
        /\ cfd.opened = 2 /\ cfd.closed = 2

\* C16: Closed is a terminal state of the reader: once Stop() has closed the
\* connection no later operation touches it: a later GetCpuLoad sends no
\* request and reads no reply on it, and a later Stop() does not close it a
\* second time.
C16_ClosedIsTerminal ==
    [][conn.state = "closed" =>
          /\ conn'.state = "closed"
          /\ conn'.closes = conn.closes
          /\ conn'.sent = conn.sent
          /\ conn'.received = conn.received]_vars

\* C17: whenever New() returns an error it returns no reader and leaves no
\* kernel connection open: a connection opened before a failed handshake has
\* been closed by the time New() returns.
C17_FailedNewLeavesNoConnection ==
    (nlRet[0].op = "New" /\ nlRet[0].err) =>
        /\ reader = NoReader
        /\ conn.state # "open"

---------------------------------------------------------------------------
(* Properties of registration (checked under SpecRegistry). *)

\* some collaborator the Register call asked failed, or the mount table it
\* got is empty
RegisterFailure(env) ==
    \/ \E k \in DOMAIN env : env[k].asked /\ env[k].err
    \/ env.subsystems.asked /\ ~env.subsystems.err /\ env.subsystems.mounts = 0

\* the source and the kind of factory of the runtime a Register call belongs to
SourceOf(op) == IF op = "raw.Register" THEN RawSource ELSE RktSource
KindOf(op) == IF op = "raw.Register" THEN "raw" ELSE "rkt"

\* C12: Register is all-or-nothing for the raw and the rkt runtime: a call
\* fails exactly when one of its lookups failed or the cgroup mount table is
\* empty; a failed call has not called RegisterContainerHandlerFactory and
\* leaves the registry unchanged; a call that returns nil has appended exactly
\* one factory of its runtime, under that runtime's watch source only.
C12_RegisterAllOrNothing ==
    [][regRet' # regRet =>
          LET src == SourceOf(regRet'.op)
              n == Len(factories[src])
          IN /\ regRet'.err <=> RegisterFailure(regRet'.env)
             /\ regRet'.err => factories' = factories
             /\ ~regRet'.err =>
                   /\ Len(factories'[src]) = n + 1
                   /\ SubSeq(factories'[src], 1, n) = factories[src]
                   /\ factories'[src][n + 1].kind = KindOf(regRet'.op)
                   /\ \A o \in ContainerWatchSources \ {src} :
                          factories'[o] = factories[o]]_vars

C12_Witness ==
    /\ regRet.op = "raw.Register"
    /\ regRet.err
    /\ regRet.env.watcher.asked
    /\ Len(factories[RawSource]) = 1
    /\ Len(factories[RktSource]) = 1

=============================================================================
